---- MODULE Spec2Model ----
(***************************************************************************)
(* GestureAI backend: the request validation, persistence and              *)
(* serialization pipeline of main.py and schemas.py.                       *)
(*                                                                         *)
(* JSON / Python values are tagged records [t, s, n] so that values of     *)
(* different Python types can be compared: t is the Python type, s the     *)
(* text of a str (or the label of an opaque dict), n the number of an      *)
(* ObjectId / datetime / float (floats in tenths: 7 is 0.7) or the size    *)
(* of a dict.  A mapping (dict) with string keys is a TLA+ function whose  *)
(* DOMAIN is its key set.                                                  *)
(***************************************************************************)
EXTENDS Integers, Sequences, FiniteSets, TLC

VARIABLES
    store,    \* the document database: collection name -> documents, oldest first
    req,      \* the request served last
    resp,     \* the response to it
    calls,    \* the Document Store Adapter calls made while serving it
    posted,   \* history: every successful POST /gestures, its body and the id returned
    pc,       \* serialize_doc run: "input", "once", "twice"
    doc,      \* serialize_doc run: the raw record passed to serialize_doc
    arg,      \* serialize_doc run: the caller's dict as the call leaves it
    out,      \* serialize_doc run: serialize_doc(doc)
    out2      \* serialize_doc run: serialize_doc(serialize_doc(doc))

vars == <<store, req, resp, calls, posted, pc, doc, arg, out, out2>>

----------------------------------------------------------------------------
(* Bounds of the model *)

MaxDocs == 4      \* documents per collection
MaxLimit == 3     \* largest explicit ?limit= value tried
MaxOid == 2       \* distinct ObjectIds / datetimes tried by the serialize_doc run

----------------------------------------------------------------------------
(* Python values *)

Str(x) == [t |-> "str", s |-> x, n |-> 0]
Num(k) == [t |-> "float", s |-> "", n |-> k]
None == [t |-> "NoneType", s |-> "", n |-> 0]
Oid(k) == [t |-> "ObjectId", s |-> "", n |-> k]
Datetime(k) == [t |-> "datetime", s |-> "", n |-> k]
Dict(label, size) == [t |-> "dict", s |-> label, n |-> size]

EmptyDict == Dict("", 0)
NoDoc == [k \in {} |-> None]

\* str(v) as main.py uses it: on an ObjectId, and inside the f-strings
PyStr(v) ==
    CASE v.t = "str" -> v.s
      [] v.t = "NoneType" -> "None"
      [] v.t = "ObjectId" -> "oid" \o ToString(v.n)
      [] v.t = "datetime" -> "2025-01-0" \o ToString(v.n) \o " 00:00:00"
      [] v.t = "float" -> ToString(v.n)
      [] OTHER -> "{" \o v.s \o "}"

\* v.isoformat(), defined on datetimes only
isoformat(v) == Str("2025-01-0" \o ToString(v.n) \o "T00:00:00")

\* hasattr(v, "isoformat")
HasIsoformat(v) == v.t = "datetime"

\* Python truthiness, as `x or y` tests it
Truthy(v) ==
    CASE v.t = "str" -> v.s # ""
      [] v.t = "NoneType" -> FALSE
      [] v.t = "float" -> v.n # 0
      [] v.t = "dict" -> v.n # 0
      [] OTHER -> TRUE

\* d.get(key, default)
Get(d, key, default) == IF key \in DOMAIN d THEN d[key] ELSE default

----------------------------------------------------------------------------
(* main.py serialize_doc *)

\* serialize_doc with `out = doc` for `out = {**doc}`
serialize_doc_alias(d) ==
    LET popped == [k \in DOMAIN d \ {"_id"} |-> d[k]]
        withId == IF "_id" \in DOMAIN d
                  THEN [k \in DOMAIN popped \cup {"id"} |->
                           IF k = "id" THEN Str(PyStr(d["_id"])) ELSE popped[k]]
                  ELSE d
        iso == [k \in DOMAIN withId |->
                   IF HasIsoformat(withId[k]) THEN isoformat(withId[k]) ELSE withId[k]]
    IN [out |-> iso, arg |-> iso]

\* serialize_doc without the `if "_id" in out` guard
serialize_doc_unguarded(d) ==
    LET popped == [k \in DOMAIN d \ {"_id"} |-> d[k]]
        withId == [k \in DOMAIN popped \cup {"id"} |->
                     IF k = "id" THEN Str(PyStr(Get(d, "_id", None))) ELSE popped[k]]
        iso == [k \in DOMAIN withId |->
                   IF HasIsoformat(withId[k]) THEN isoformat(withId[k]) ELSE withId[k]]
    IN [out |-> iso, arg |-> d]

\* the body of serialize_doc: the local `out` at return, and the caller's
\* dict `arg` as the call leaves it
serialize_doc_run(d) ==
    LET copy == d                                             \* out = {**doc}
        popped == [k \in DOMAIN copy \ {"_id"} |-> copy[k]]   \* out.pop("_id")
        withId == IF "_id" \in DOMAIN copy                    \* out["id"] = str(...)
                  THEN [k \in DOMAIN popped \cup {"id"} |->
                           IF k = "id" THEN Str(PyStr(copy["_id"])) ELSE popped[k]]
                  ELSE copy
        iso == [k \in DOMAIN withId |->
                   IF HasIsoformat(withId[k]) THEN isoformat(withId[k]) ELSE withId[k]]
    IN [out |-> iso, arg |-> d]

serialize_doc(d) == serialize_doc_run(d).out

----------------------------------------------------------------------------
(* schemas.py: the pydantic models.  Each returns [ok, value]: ok is FALSE *)
(* when validation fails, else value is the model's fields, defaults       *)
(* applied; keys the model does not declare are ignored.                   *)

DefaultSensitivity == 7     \* Field(0.7, ...)
SensitivityGe == 0          \* ge=0.0
SensitivityLe == 10         \* le=1.0

\* a required `str` field
RequiredStr(body, key) == key \in DOMAIN body /\ body[key].t = "str"

\* an Optional[T] field: absent, None or a T
OptionalOf(body, key, type) ==
    key \in DOMAIN body => body[key].t \in {type, "NoneType"}

\* Gesture without le=1.0
GestureNoUpperBound(body) ==
    LET sensOk == /\ OptionalOf(body, "sensitivity", "float")
                  /\ ("sensitivity" \in DOMAIN body /\ body["sensitivity"].t = "float")
                        => body["sensitivity"].n >= SensitivityGe
        valid == /\ RequiredStr(body, "name")
                 /\ RequiredStr(body, "intent")
                 /\ OptionalOf(body, "app", "str")
                 /\ sensOk
                 /\ OptionalOf(body, "metadata", "dict")
    IN [ok |-> valid,
        value |-> IF valid
                  THEN [name |-> body["name"],
                        intent |-> body["intent"],
                        app |-> Get(body, "app", None),
                        sensitivity |-> Get(body, "sensitivity", Num(DefaultSensitivity)),
                        metadata |-> Get(body, "metadata", EmptyDict)]
                  ELSE NoDoc]

\* Gesture with sensitivity defaulting to None
GestureNoneDefault(body) ==
    LET sensOk == /\ OptionalOf(body, "sensitivity", "float")
                  /\ ("sensitivity" \in DOMAIN body /\ body["sensitivity"].t = "float")
                        => /\ body["sensitivity"].n >= SensitivityGe
                           /\ body["sensitivity"].n <= SensitivityLe
        valid == /\ RequiredStr(body, "name")
                 /\ RequiredStr(body, "intent")
                 /\ OptionalOf(body, "app", "str")
                 /\ sensOk
                 /\ OptionalOf(body, "metadata", "dict")
    IN [ok |-> valid,
        value |-> IF valid
                  THEN [name |-> body["name"],
                        intent |-> body["intent"],
                        app |-> Get(body, "app", None),
                        sensitivity |-> Get(body, "sensitivity", None),
                        metadata |-> Get(body, "metadata", EmptyDict)]
                  ELSE NoDoc]

Gesture(body) ==
    LET sensOk == /\ OptionalOf(body, "sensitivity", "float")
                  /\ ("sensitivity" \in DOMAIN body /\ body["sensitivity"].t = "float")
                        => /\ body["sensitivity"].n >= SensitivityGe
                           /\ body["sensitivity"].n <= SensitivityLe
        valid == /\ RequiredStr(body, "name")
                 /\ RequiredStr(body, "intent")
                 /\ OptionalOf(body, "app", "str")
                 /\ sensOk
                 /\ OptionalOf(body, "metadata", "dict")
    IN [ok |-> valid,
        value |-> IF valid
                  THEN [name |-> body["name"],
                        intent |-> body["intent"],
                        app |-> Get(body, "app", None),
                        sensitivity |-> Get(body, "sensitivity", Num(DefaultSensitivity)),
                        metadata |-> Get(body, "metadata", EmptyDict)]
                  ELSE NoDoc]

VoiceCommand(body) ==
    LET valid == /\ RequiredStr(body, "phrase")
                 /\ RequiredStr(body, "intent")
                 /\ OptionalOf(body, "language", "str")
                 /\ OptionalOf(body, "app", "str")
                 /\ OptionalOf(body, "context", "dict")
    IN [ok |-> valid,
        value |-> IF valid
                  THEN [phrase |-> body["phrase"],
                        intent |-> body["intent"],
                        language |-> Get(body, "language", Str("en")),
                        app |-> Get(body, "app", None),
                        context |-> Get(body, "context", EmptyDict)]
                  ELSE NoDoc]

----------------------------------------------------------------------------
(* The Document Store Adapter (module `database`).  `outcome` is what the  *)
(* store does with the call: "ok", or the message of the exception raised. *)

DbOutcomes == {"ok", "Database not available", "connection timed out"}

\* one entry of `calls`
Call(fn, coll, limit, record, outcome, result) ==
    [fn |-> fn, coll |-> coll, limit |-> limit, record |-> record,
     ok |-> outcome = "ok", error |-> IF outcome = "ok" THEN "" ELSE outcome,
     result |-> result]

\* create_document(collection_name, data) -> str(inserted id)
create_document(st, coll, record, outcome) ==
    LET oid == Oid(Len(st[coll]) + 1)
        stored == [k \in DOMAIN record \cup {"_id"} |->
                      IF k = "_id" THEN oid ELSE record[k]]
    IN IF outcome = "ok"
       THEN [ok |-> TRUE, error |-> "", id |-> PyStr(oid),
             store |-> [st EXCEPT ![coll] = Append(@, stored)],
             call |-> Call("create_document", coll, 0, record, outcome, <<>>)]
       ELSE [ok |-> FALSE, error |-> outcome, id |-> "",
             store |-> st,
             call |-> Call("create_document", coll, 0, record, outcome, <<>>)]

Min(a, b) == IF a <= b THEN a ELSE b

\* get_documents(collection_name, limit): the `limit` most recently created
\* documents, most recent first
get_documents(st, coll, limit, outcome) ==
    LET all == st[coll]
        k == Min(limit, Len(all))
        docs == [i \in 1..k |-> all[Len(all) + 1 - i]]
    IN IF outcome = "ok"
       THEN [ok |-> TRUE, error |-> "", docs |-> docs,
             call |-> Call("get_documents", coll, limit, NoDoc, outcome, docs)]
       ELSE [ok |-> FALSE, error |-> outcome, docs |-> <<>>,
             call |-> Call("get_documents", coll, limit, NoDoc, outcome, <<>>)]

----------------------------------------------------------------------------
(* main.py: the domain endpoints.  Each handler is given the store, the    *)
(* request and `db`, the outcomes of the adapter calls it makes, in order; *)
(* it returns the store, the response and the adapter calls made.          *)

Response(status, detail, id, items) ==
    [status |-> status, detail |-> detail, id |-> id, items |-> items]

\* the 422 FastAPI answers when the body does not validate against the model
Unprocessable(st) ==
    [store |-> st, resp |-> Response(422, "validation error", "", <<>>), calls |-> <<>>]

DefaultLimit == 20

\* the `limit` query parameter: Optional[int] = 20
LimitOf(query) == IF query.given THEN query.n ELSE DefaultLimit

\* POST /gestures, retrying a failed write once
create_gesture_retry(st, body, db) ==
    LET gesture == Gesture(body)
        r == create_document(st, "gesture", gesture.value, db[1])
        r2 == create_document(st, "gesture", gesture.value, db[2])
    IN IF ~gesture.ok
       THEN Unprocessable(st)
       ELSE IF r.ok
       THEN [store |-> r.store, resp |-> Response(200, "", r.id, <<>>),
             calls |-> <<r.call>>]
       ELSE IF r2.ok
       THEN [store |-> r2.store, resp |-> Response(200, "", r2.id, <<>>),
             calls |-> <<r.call, r2.call>>]
       ELSE [store |-> st, resp |-> Response(500, r2.error, "", <<>>),
             calls |-> <<r.call, r2.call>>]

\* POST /gestures
create_gesture(st, body, db) ==
    LET gesture == Gesture(body)                  \* gesture: Gesture
        r == create_document(st, "gesture", gesture.value, db[1])
    IN IF ~gesture.ok
       THEN Unprocessable(st)
       ELSE IF r.ok
       THEN [store |-> r.store, resp |-> Response(200, "", r.id, <<>>),
             calls |-> <<r.call>>]
       ELSE [store |-> st, resp |-> Response(500, r.error, "", <<>>),
             calls |-> <<r.call>>]

\* GET /gestures
list_gestures(st, query, db) ==
    LET r == get_documents(st, "gesture", LimitOf(query), db[1])
    IN IF r.ok
       THEN [store |-> st,
             resp |-> Response(200, "", "",
                               [i \in 1..Len(r.docs) |-> serialize_doc(r.docs[i])]),
             calls |-> <<r.call>>]
       ELSE [store |-> st, resp |-> Response(500, r.error, "", <<>>),
             calls |-> <<r.call>>]

\* POST /voices
create_voice(st, body, db) ==
    LET cmd == VoiceCommand(body)                 \* cmd: VoiceCommand
        r == create_document(st, "voicecommand", cmd.value, db[1])
    IN IF ~cmd.ok
       THEN Unprocessable(st)
       ELSE IF r.ok
       THEN [store |-> r.store, resp |-> Response(200, "", r.id, <<>>),
             calls |-> <<r.call>>]
       ELSE [store |-> st, resp |-> Response(500, r.error, "", <<>>),
             calls |-> <<r.call>>]

\* GET /voices, reading the gestures' collection
list_voices_wrong_collection(st, query, db) ==
    LET r == get_documents(st, "gesture", LimitOf(query), db[1])
    IN IF r.ok
       THEN [store |-> st,
             resp |-> Response(200, "", "",
                               [i \in 1..Len(r.docs) |-> serialize_doc(r.docs[i])]),
             calls |-> <<r.call>>]
       ELSE [store |-> st, resp |-> Response(500, r.error, "", <<>>),
             calls |-> <<r.call>>]

\* GET /voices
list_voices(st, query, db) ==
    LET r == get_documents(st, "voicecommand", LimitOf(query), db[1])
    IN IF r.ok
       THEN [store |-> st,
             resp |-> Response(200, "", "",
                               [i \in 1..Len(r.docs) |-> serialize_doc(r.docs[i])]),
             calls |-> <<r.call>>]
       ELSE [store |-> st, resp |-> Response(500, r.error, "", <<>>),
             calls |-> <<r.call>>]

----------------------------------------------------------------------------
(* main.py: GET /suggestions *)

SuggestionsLimit == 3       \* get_documents(..., limit=3)
SuggestionsMax == 6         \* (dynamic or base)[:6]

base ==
    << [title |-> Str("Wave to silence notifications"), category |-> Str("Focus")],
       [title |-> Str("Pinch to zoom in any app"), category |-> Str("Navigation")],
       [title |-> Str("Say \"open notes\" to start typing"), category |-> Str("Voice")] >>

\* x or y
Or(x, y) == IF Truthy(x) THEN x ELSE y

\* the try block, its except clause resetting recent_voices only
recent_keep_gestures(st, db) ==
    LET g == get_documents(st, "gesture", SuggestionsLimit, db[1])
        v == get_documents(st, "voicecommand", SuggestionsLimit, db[2])
    IN IF ~g.ok
       THEN [recent_gestures |-> <<>>, recent_voices |-> <<>>, calls |-> <<g.call>>]
       ELSE IF ~v.ok
       THEN [recent_gestures |-> g.docs, recent_voices |-> <<>>, calls |-> <<g.call, v.call>>]
       ELSE [recent_gestures |-> g.docs, recent_voices |-> v.docs,
             calls |-> <<g.call, v.call>>]

\* the try block: both reads, or neither result when one raises
recent(st, db) ==
    LET g == get_documents(st, "gesture", SuggestionsLimit, db[1])
        v == get_documents(st, "voicecommand", SuggestionsLimit, db[2])
    IN IF ~g.ok
       THEN [recent_gestures |-> <<>>, recent_voices |-> <<>>, calls |-> <<g.call>>]
       ELSE IF ~v.ok
       THEN [recent_gestures |-> <<>>, recent_voices |-> <<>>, calls |-> <<g.call, v.call>>]
       ELSE [recent_gestures |-> g.docs, recent_voices |-> v.docs,
             calls |-> <<g.call, v.call>>]

\* the entry appended for a gesture
gesture_suggestion(g) ==
    [title |-> Str("Use '" \o PyStr(Get(g, "name", Str("gesture")))
                   \o "' to trigger " \o PyStr(Get(g, "intent", Str("an action")))),
     category |-> Or(Get(g, "app", None), Str("Custom"))]

\* the entry appended for a voice command
voice_suggestion(v) ==
    [title |-> Str("Say '" \o PyStr(Get(v, "phrase", Str("command")))
                   \o "' to " \o PyStr(Get(v, "intent", Str("do something")))),
     category |-> Or(Get(v, "app", None), Str("Custom"))]

\* the two loops
dynamic(recent_gestures, recent_voices) ==
    [i \in 1..Len(recent_gestures) |-> gesture_suggestion(recent_gestures[i])]
    \o [i \in 1..Len(recent_voices) |-> voice_suggestion(recent_voices[i])]

\* (dynamic + base)[:6]
chosen_mixed(dyn) == SubSeq(dyn \o base, 1, Min(SuggestionsMax, Len(dyn \o base)))

\* (dynamic or base)[:6]
chosen(dyn) ==
    LET pick == IF dyn # <<>> THEN dyn ELSE base
    IN SubSeq(pick, 1, Min(SuggestionsMax, Len(pick)))

suggestions(st, db) ==
    LET r == recent(st, db)
    IN [store |-> st,
        resp |-> Response(200, "", "", chosen(dynamic(r.recent_gestures, r.recent_voices))),
        calls |-> r.calls]

----------------------------------------------------------------------------
(* The requests clients send *)

GestureBodies ==
    { [name |-> Str("Wave"), intent |-> Str("mute")],
      [name |-> Str(""), intent |-> Str(""), app |-> Str("Maps"),
       sensitivity |-> None, metadata |-> Dict("hand=left", 1)],
      [intent |-> Str("mute")],
      [name |-> Dict("first=Wave", 1), intent |-> Str("mute")],
      [name |-> Str("Wave"), intent |-> Str("mute"), sensitivity |-> Num(11)],
      [name |-> Str("Wave"), intent |-> Str("mute"), sensitivity |-> Num(-1)] }

VoiceBodies ==
    { [phrase |-> Str("open notes"), intent |-> Str("open_notes")],
      [intent |-> Str("open_notes")],
      [phrase |-> None, intent |-> Str("open_notes")] }

NoQuery == [given |-> FALSE, n |-> 0]

\* ?limit= omitted, or a non-negative integer
Queries == {NoQuery} \cup { [given |-> TRUE, n |-> n] : n \in 0..MaxLimit }

\* the outcomes of the (at most two) adapter calls of one request
DbRuns == DbOutcomes \X DbOutcomes

\* the same for an endpoint that makes one call: were it to make a second,
\* the store would answer it
DbRun1 == { <<o, "ok">> : o \in DbOutcomes }

Request(op, body, query) == [op |-> op, body |-> body, query |-> query]

----------------------------------------------------------------------------
(* The server: one action per endpoint *)

Init ==
    /\ store = [gesture |-> <<>>, voicecommand |-> <<>>]
    /\ req = Request("none", NoDoc, NoQuery)
    /\ resp = Response(0, "", "", <<>>)
    /\ calls = <<>>
    /\ posted = <<>>
    /\ pc = "idle"
    /\ doc = NoDoc
    /\ arg = NoDoc
    /\ out = NoDoc
    /\ out2 = NoDoc

Serve(r) ==
    /\ \A c \in DOMAIN r.store : Len(r.store[c]) <= MaxDocs
    /\ store' = r.store
    /\ resp' = r.resp
    /\ calls' = r.calls
    /\ UNCHANGED <<pc, doc, arg, out, out2>>

CreateGesture ==
    \E body \in GestureBodies, db \in DbRun1 :
        LET r == create_gesture(store, body, db)
        IN /\ Serve(r)
           /\ req' = Request("POST /gestures", body, NoQuery)
           /\ posted' = IF r.resp.status = 200
                        THEN Append(posted, [id |-> r.resp.id, body |-> body])
                        ELSE posted

ListGestures ==
    \E query \in Queries, db \in DbRun1 :
        /\ Serve(list_gestures(store, query, db))
        /\ req' = Request("GET /gestures", NoDoc, query)
        /\ UNCHANGED posted

CreateVoice ==
    \E body \in VoiceBodies, db \in DbRun1 :
        /\ Serve(create_voice(store, body, db))
        /\ req' = Request("POST /voices", body, NoQuery)
        /\ UNCHANGED posted

ListVoices ==
    \E query \in Queries, db \in DbRun1 :
        /\ Serve(list_voices(store, query, db))
        /\ req' = Request("GET /voices", NoDoc, query)
        /\ UNCHANGED posted

Suggestions ==
    \E db \in DbRuns :
        /\ Serve(suggestions(store, db))
        /\ req' = Request("GET /suggestions", NoDoc, NoQuery)
        /\ UNCHANGED posted

Next ==
    \/ CreateGesture
    \/ ListGestures
    \/ CreateVoice
    \/ ListVoices
    \/ Suggestions

Spec == Init /\ [][Next]_vars

----------------------------------------------------------------------------
(* serialize_doc on its own: every raw record over a few keys *)

Absent == [t |-> "absent", s |-> "", n |-> 0]

RawKeys == {"_id", "id", "name", "created_at"}

RawValues(k) ==
    CASE k = "_id" -> { Oid(i) : i \in 1..MaxOid }
      [] k = "id" -> { Str("oid1"), Str("custom") }
      [] k = "name" -> { Str("Wave"), None }
      [] k = "created_at" -> { Datetime(i) : i \in 1..MaxOid }
                               \cup { Str("2025-01-01T00:00:00") }

AllRawValues == UNION { RawValues(k) : k \in RawKeys } \cup {Absent}

RawDocs ==
    { [k \in { j \in RawKeys : f[j] # Absent } |-> f[k]] :
        f \in { g \in [RawKeys -> AllRawValues] :
                  \A k \in RawKeys : g[k] \in RawValues(k) \cup {Absent} } }

InitSerialize ==
    /\ store = [gesture |-> <<>>, voicecommand |-> <<>>]
    /\ req = Request("none", NoDoc, NoQuery)
    /\ resp = Response(0, "", "", <<>>)
    /\ calls = <<>>
    /\ posted = <<>>
    /\ pc = "input"
    /\ doc \in RawDocs
    /\ arg = NoDoc
    /\ out = NoDoc
    /\ out2 = NoDoc

SerializeOnce ==
    /\ pc = "input"
    /\ LET r == serialize_doc_run(doc)
       IN /\ arg' = r.arg
          /\ out' = r.out
    /\ pc' = "once"
    /\ UNCHANGED <<store, req, resp, calls, posted, doc, out2>>

SerializeTwice ==
    /\ pc = "once"
    /\ out2' = serialize_doc(out)
    /\ pc' = "twice"
    /\ UNCHANGED <<store, req, resp, calls, posted, doc, arg, out>>

NextSerialize ==
    \/ SerializeOnce
    \/ SerializeTwice

SpecSerialize == InitSerialize /\ [][NextSerialize]_vars

----------------------------------------------------------------------------
(* Properties *)

Range(q) == { q[i] : i \in DOMAIN q }

HasStr(b, key) == key \in DOMAIN b /\ b[key].t = "str"

\* the body lacks a required field, gives one a value that is no text, or
\* gives a sensitivity outside [0.0, 1.0]
FailsGestureSchema(b) ==
    \/ ~HasStr(b, "name")
    \/ ~HasStr(b, "intent")
    \/ /\ "sensitivity" \in DOMAIN b
       /\ b["sensitivity"].t = "float"
       /\ (b["sensitivity"].n < 0 \/ b["sensitivity"].n > 10)

FailsVoiceSchema(b) == ~HasStr(b, "phrase") \/ ~HasStr(b, "intent")

FailsSchema(r) ==
    \/ r.op = "POST /gestures" /\ FailsGestureSchema(r.body)
    \/ r.op = "POST /voices" /\ FailsVoiceSchema(r.body)

\* C1: a POST /gestures or POST /voices whose body fails schema validation
\* is answered with a client error, makes no adapter call and leaves the
\* store as it was.
C1_InvalidBodyNeverReachesStorage ==
    [][ FailsSchema(req') =>
            /\ resp'.status \in 400..499
            /\ calls' = <<>>
            /\ store' = store ]_vars

C1_Witness ==
    /\ req.op = "POST /gestures"
    /\ "sensitivity" \in DOMAIN req.body
    /\ req.body["sensitivity"] = Num(11)
    /\ resp.status = 422
    /\ store["gesture"] # <<>>

SomeCallFailed == \E i \in DOMAIN calls : ~calls[i].ok

\* C2: GET /suggestions always answers 200, and when one of its storage
\* reads fails (the first, or the second after the first succeeded) the
\* answer is exactly the three fallback suggestions.
C2_SuggestionsSwallowStorageFailure ==
    req.op = "GET /suggestions" =>
        /\ resp.status = 200
        /\ SomeCallFailed => (resp.items = base /\ Len(resp.items) = 3)

C2_Witness ==
    /\ req.op = "GET /suggestions"
    /\ Len(calls) = 2
    /\ calls[1].ok
    /\ calls[1].result # <<>>
    /\ ~calls[2].ok
    /\ resp.status = 200
    /\ resp.items = base

\* what GET /suggestions fetched: the two reads' results, or nothing when
\* a read failed
FetchedGestures == IF SomeCallFailed THEN <<>> ELSE calls[1].result
FetchedVoices == IF SomeCallFailed THEN <<>> ELSE calls[2].result

\* C3: GET /suggestions answers either dynamic items only or the fallback
\* only: with something fetched, the first 6 entries of the dynamic list
\* (6 of them when both collections hold at least 4 records), with nothing
\* fetched, the 3 fallback items; never more than 6 items.
C3_DynamicOrFallbackNeverMixed ==
    req.op = "GET /suggestions" =>
        LET n == Len(FetchedGestures) + Len(FetchedVoices)
        IN /\ Len(resp.items) <= 6
           /\ n = 0 => resp.items = base
           /\ n > 0 =>
                /\ Len(resp.items) = Min(6, n)
                /\ \A i \in 1..Len(resp.items) :
                      /\ resp.items[i] \notin Range(base)
                      /\ i <= Len(FetchedGestures)
                           => resp.items[i] = gesture_suggestion(FetchedGestures[i])
                      /\ i > Len(FetchedGestures)
                           => resp.items[i] =
                                voice_suggestion(FetchedVoices[i - Len(FetchedGestures)])
           /\ ( /\ ~SomeCallFailed
                /\ Len(store["gesture"]) >= 4
                /\ Len(store["voicecommand"]) >= 4 ) => Len(resp.items) = 6

C3_Witness ==
    /\ req.op = "GET /suggestions"
    /\ ~SomeCallFailed
    /\ Len(store["gesture"]) >= 4
    /\ Len(store["voicecommand"]) >= 4
    /\ Len(resp.items) = 6
    /\ resp.items[1] \notin Range(base)

CreateOrList == {"POST /gestures", "GET /gestures", "POST /voices", "GET /voices"}

\* C4: a create or list request that reaches its handler makes exactly one
\* adapter call; when that call fails the request ends with status 500 and
\* the failure's message as detail, without a second attempt.
C4_OneStorageCallNoRetry ==
    (req.op \in CreateOrList /\ resp.status # 422) =>
        /\ Len(calls) = 1
        /\ calls[1].fn = IF req.op \in {"POST /gestures", "POST /voices"}
                         THEN "create_document" ELSE "get_documents"
        /\ calls[1].ok => resp.status = 200
        /\ ~calls[1].ok =>
              /\ resp.status = 500
              /\ resp.detail = calls[1].error
              /\ resp.detail \in DbOutcomes \ {"ok"}

C4_Witness ==
    /\ req.op = "POST /gestures"
    /\ Len(calls) = 1
    /\ ~calls[1].ok
    /\ resp.status = 500
    /\ resp.detail = "connection timed out"

OnlyNameAndIntent(b) == DOMAIN b = {"name", "intent"}

\* the gestures created after the i-th successful POST /gestures
CreatedSince(i) == Len(posted) - i

\* C5: a POST /gestures giving only name and intent hands storage a record
\* with sensitivity 0.7, app null and metadata {}; a later GET /gestures,
\* fewer than `limit` gestures having been created since, includes a record
\* with the id the POST returned and those field values.
C5_DefaultsStoredAndListed ==
    /\ ( /\ req.op = "POST /gestures"
         /\ OnlyNameAndIntent(req.body)
         /\ calls # <<>> ) =>
            /\ calls[1].record = [name |-> req.body["name"],
                                  intent |-> req.body["intent"],
                                  app |-> None,
                                  sensitivity |-> Num(7),
                                  metadata |-> Dict("", 0)]
            /\ resp.status = 200 => posted[Len(posted)].id = resp.id
    /\ (req.op = "GET /gestures" /\ resp.status = 200) =>
          \A i \in 1..Len(posted) :
              ( /\ OnlyNameAndIntent(posted[i].body)
                /\ CreatedSince(i) <= LimitOf(req.query) - 1 ) =>
                  \E k \in 1..Len(resp.items) :
                      resp.items[k] = [id |-> Str(posted[i].id),
                                       name |-> posted[i].body["name"],
                                       intent |-> posted[i].body["intent"],
                                       app |-> None,
                                       sensitivity |-> Num(7),
                                       metadata |-> Dict("", 0)]

C5_Witness ==
    /\ req.op = "GET /gestures"
    /\ resp.status = 200
    /\ req.query = [given |-> TRUE, n |-> 2]
    /\ Len(posted) = 3
    /\ OnlyNameAndIntent(posted[2].body)
    /\ ~OnlyNameAndIntent(posted[3].body)
    /\ resp.items[2]["id"] = Str(posted[2].id)
    /\ resp.items[2]["sensitivity"] = Num(7)

OwnCollection == IF req.op = "GET /gestures" THEN "gesture" ELSE "voicecommand"

NoDatetimes(d) == \A k \in DOMAIN d : d[k].t # "datetime"

Serialized == pc \in {"once", "twice"}

\* C7 as stated: for a raw record with _id X and no date/time value,
\* serialize_doc returns a mapping without _id, with id = str(X) and every
\* other key of the input with its input value; the input is not modified.
C7_EveryOtherKeyUnchanged ==
    (Serialized /\ "_id" \in DOMAIN doc /\ NoDatetimes(doc)) =>
        /\ "_id" \notin DOMAIN out
        /\ "id" \in DOMAIN out
        /\ out["id"] = Str(PyStr(doc["_id"]))
        /\ \A k \in DOMAIN doc \ {"_id"} : k \in DOMAIN out /\ out[k] = doc[k]
        /\ arg = doc

\* C7, amended: the same, for every other key of the input but `id`, whose
\* input value the string form of _id replaces.
C7_EveryOtherKeyButIdUnchanged ==
    (Serialized /\ "_id" \in DOMAIN doc /\ NoDatetimes(doc)) =>
        /\ "_id" \notin DOMAIN out
        /\ "id" \in DOMAIN out
        /\ out["id"] = Str(PyStr(doc["_id"]))
        /\ out["id"].t = "str"
        /\ \A k \in DOMAIN doc \ {"_id", "id"} : k \in DOMAIN out /\ out[k] = doc[k]
        /\ DOMAIN out = (DOMAIN doc \ {"_id"}) \cup {"id"}
        /\ arg = doc

C7_Witness ==
    /\ pc = "once"
    /\ "_id" \in DOMAIN doc
    /\ "name" \in DOMAIN doc
    /\ NoDatetimes(doc)
    /\ out["id"] = Str("oid2")
    /\ out["name"] = doc["name"]

\* C8: serialize_doc(serialize_doc(r)) = serialize_doc(r) for every raw
\* record r, and serialize_doc returns a mapping equal to its input for
\* every record without _id key and without date/time value.
C8_SerializeIdempotent ==
    /\ pc = "twice" => out2 = out
    /\ (Serialized /\ "_id" \notin DOMAIN doc /\ NoDatetimes(doc)) => out = doc

C8_Witness ==
    /\ pc = "twice"
    /\ "_id" \in DOMAIN doc
    /\ "created_at" \in DOMAIN doc
    /\ doc["created_at"].t = "datetime"
    /\ out # doc
    /\ out2 = out

\* C9: every Gesture record handed to create_document has a non-empty
\* name, a non-empty intent and a sensitivity that is a number in
\* [0.0, 1.0]; every VoiceCommand record a non-empty phrase and intent.
C9_StoredRecordsWellFormed ==
    \A i \in DOMAIN calls :
        /\ (calls[i].fn = "create_document" /\ calls[i].coll = "gesture") =>
              /\ calls[i].record["name"].t = "str"
              /\ calls[i].record["name"].s # ""
              /\ calls[i].record["intent"].t = "str"
              /\ calls[i].record["intent"].s # ""
              /\ calls[i].record["sensitivity"].t = "float"
              /\ calls[i].record["sensitivity"].n \in 0..10
        /\ (calls[i].fn = "create_document" /\ calls[i].coll = "voicecommand") =>
              /\ calls[i].record["phrase"].t = "str"
              /\ calls[i].record["phrase"].s # ""
              /\ calls[i].record["intent"].t = "str"
              /\ calls[i].record["intent"].s # ""

\* the field's text when it is present and non-empty, else the default
PresentOr(d, key, default) ==
    IF key \in DOMAIN d /\ d[key].t = "str" /\ d[key].s # "" THEN d[key].s ELSE default

\* C10: each fetched gesture yields "Use '<N>' to trigger <I>", N its name
\* if present and non-empty else "gesture", I its intent if present and
\* non-empty else "an action"; each fetched voice command "Say '<P>' to
\* <I>" likewise with "command" and "do something"; the category is the
\* record's app if present and non-empty, else "Custom".
C10_TitlesFallBackOnEmptyFields ==
    (req.op = "GET /suggestions" /\ ~SomeCallFailed) =>
        LET g == FetchedGestures
            v == FetchedVoices
        IN /\ \A i \in 1..Len(g) :
                 /\ resp.items[i]["title"] =
                        Str("Use '" \o PresentOr(g[i], "name", "gesture")
                            \o "' to trigger " \o PresentOr(g[i], "intent", "an action"))
                 /\ resp.items[i]["category"] = Str(PresentOr(g[i], "app", "Custom"))
           /\ \A i \in 1..Len(v) :
                 /\ resp.items[Len(g) + i]["title"] =
                        Str("Say '" \o PresentOr(v[i], "phrase", "command")
                            \o "' to " \o PresentOr(v[i], "intent", "do something"))
                 /\ resp.items[Len(g) + i]["category"] = Str(PresentOr(v[i], "app", "Custom"))

====
